---- MODULE Spec2Model ----
(***************************************************************************)
(* Control-channel protocol of RAMControl (task laptop side).              *)
(*                                                                         *)
(* The model follows src/ramcontrol/control.py (RAMControl),               *)
(* src/ramcontrol/zmqsocket.py (SocketServer),                             *)
(* src/source/pylib/messages.py (the message classes) and, for the voice   *)
(* activity detection worker, src/ramcontrol/voiceserver.py (VoiceServer)  *)
(* and src/ramcontrol/ipc.py.                                              *)
(*                                                                         *)
(* The program is single threaded: the experiment code and the PyEPL poll  *)
(* callbacks (socket.update, check_connection, socket.send_heartbeat) run  *)
(* on one thread, so every callback and every API call is one atomic       *)
(* action.  The blocking API calls (initiate_connection,                   *)
(* wait_for_start_message) are split at their polling loop: the callbacks  *)
(* run while the caller sits in the loop.                                  *)
(*                                                                         *)
(* Python methods are written as operators from a "world" record (the      *)
(* objects' fields) to the world after the call; an exception leaving a    *)
(* method is the field exc of the returned world.                          *)
(***************************************************************************)
EXTENDS Integers, Sequences, FiniteSets, TLC

VARIABLES
    control,    \* fields of the RAMControl instance
    socket,     \* fields of its SocketServer
    wire,       \* messages the ZMQ socket has accepted (sock.send), in order
    callbacks,  \* PyEPL poll callbacks registered with addPollCallback
    app,        \* position of the experiment code in the controller's API
    obs,        \* observations: counters of what has happened so far
    proc,       \* "running", "exited" (sys.exit) or "crashed" (uncaught exception)
    now,        \* time.time(), in seconds
    pipe,       \* the duplex pipe between the main process and the VoiceServer
    gate,       \* position of the experiment code in voice_detector()
    worker,     \* the VoiceServer process
    sock,       \* the ZMQ PAIR socket of the SocketServer, as the library keeps it
    codec,      \* a message, its JSON form and the message rebuilt from it
    class,      \* the class RAMControl: _instance and the controllers constructed
    net,        \* a server object of the legacy Network class and its listener thread
    vad         \* the detection thread of the VoiceServer (check_for_speech)

vars == <<control, socket, wire, callbacks, app, obs, proc, now, pipe, gate, worker,
          sock, codec, class, net, vad>>

----------------------------------------------------------------------------
(* Bounds of the model *)

\* time.time() runs from StartTime to MaxTime
MaxTime == 2
\* number of frames the host sends
MaxIn == 2
\* number of API calls the experiment code makes
MaxCalls == 2
\* connection_timeout handed to the constructor, in seconds (the default is
\* 10; a shorter one keeps the clock small)
ConnectionTimeout == 1

\* number of times the experiment code enters voice_detector()
MaxGates == 2
\* number of buffers the microphone thread of the voice server reads
MaxReads == 1
\* number of messages the listener socket of the voice server delivers
MaxVoiceMsgs == 1
\* number of controller.send calls while the transport is watched
MaxSends == 2
\* number of controller.send calls of a burst
MaxBurst == 33
MaxNetCalls == 3
MaxChunks == 3
MaxRequests == 3

\* time.time() at construction; any positive number (seconds since the epoch)
StartTime == 1

----------------------------------------------------------------------------
(* Messages: src/source/pylib/messages.py *)

\* Python's None, and a present value v, for the optional fields
None == <<>>
Some(v) == <<v>>

\* RAMMessage.__init__: event_type, data, aux_data.  The field ramsg says that
\* the object is an instance of RAMMessage, json that json.dumps accepts its
\* payload, and enq is the ordinal of its enqueue_message call (0: never queued).
RAMMessage(event_type, data, aux_data) ==
    [type |-> event_type, data |-> data, aux |-> aux_data,
     ramsg |-> TRUE, json |-> TRUE, enq |-> 0]

ConnectedMessage == RAMMessage("CONNECTED", None, None)
HeartbeatMessage == RAMMessage("HEARTBEAT", Some("1"), None)
ExperimentNameMessage(experiment) == RAMMessage("EXPNAME", Some(experiment), None)
VersionMessage(version) == RAMMessage("VERSION", Some(version), None)
SessionMessage(session, session_type) ==
    RAMMessage("SESSION", <<session_type, session>>, None)
SubjectIdMessage(subject) == RAMMessage("SUBJECTID", Some(subject), None)
AlignClockMessage == RAMMessage("ALIGNCLOCK", None, None)
SyncMessage(num) == RAMMessage("SYNC", None, Some(num))
ExitMessage == RAMMessage("EXIT", None, None)
ReadyMessage == RAMMessage("READY", None, None)
StateMessage(state, value) == RAMMessage("STATE", <<state, value>>, None)

----------------------------------------------------------------------------
(* Inputs *)

\* configure(experiment, version, session_num, subject)
Configs ==
    { [experiment |-> "FR5", version |-> "6.0.0", session_num |-> "0",
       subject |-> "R0001E"] }

\* What the experiment code hands to RAMControl.send: a message, a message
\* whose payload json.dumps rejects, and an object that is no RAMMessage.
SendInputs ==
    { StateMessage("WORD", "True"),
      [StateMessage("WORD", "object") EXCEPT !.json = FALSE],
      [StateMessage("dict", "dict") EXCEPT !.ramsg = FALSE] }

\* A frame on the socket: json is "undecodable" (recv_json raises), "nondict"
\* (valid JSON that is no object) or "object"; an object has an optional
\* "type" key, whose value is a string or an unhashable value (a list), and an
\* optional "num" key.
\* the sequence numbers the host puts in its SYNC messages
SyncNums == {1, 2}
Frame(type, num) == [json |-> "object", type |-> type, num |-> num]
Unhashable == "<list>"
TypeTags == {"ID", "SYNC", "SYNCED", "START", "EXIT", "HEARTBEAT", "CONNECTED", "BOGUS"}
Frames ==
    { [json |-> "undecodable", type |-> None, num |-> None],
      [json |-> "nondict", type |-> None, num |-> None],
      Frame(None, None), Frame(Some(Unhashable), None) }
    \cup { Frame(Some(t), None) : t \in TypeTags }
    \cup { Frame(Some("SYNC"), Some(k)) : k \in SyncNums }
\* the poller reports nothing to read
NoFrame == [json |-> "none", type |-> None, num |-> None]

----------------------------------------------------------------------------
(* The pipe to the VoiceServer: src/ramcontrol/ipc.py *)

\* ipc.message: type and data.  The field "created" (time.time()) is read by
\* nobody and left out; inv is the ordinal of the voice_detector() invocation
\* a START was sent by, or a STARTED answers (0: none).
ipc_message(message_type, data) ==
    [type |-> message_type, data |-> data, inv |-> 0]

\* ipc.critical_error_message
critical_error_message(comment) == ipc_message("CRITICAL", Some(comment))

\* multiprocessing.Pipe(): one queue per direction; done is the Event of the
\* VoiceServer that both processes share (VoiceServer.__init__)
NoPipe == [to_worker |-> <<>>, to_main |-> <<>>, done |-> FALSE]

\* the experiment code is outside voice_detector() and has never entered it
GateIdle ==
    [pc |-> "idle", exc |-> "none", at |-> "none", inv |-> 0, ack |-> 0,
     polls |-> 0, read |-> {}, entered |-> 0, stops |-> 0]

\* voice_server is None: no process.  readers is the number of threads inside
\* the loop of read_audio_stream, leaving the number of those that have left
\* the loop and not yet cleared stop_stream; started says that STARTED was
\* sent and no STOP was processed since
NoWorker ==
    [alive |-> FALSE, readers |-> 0, leaving |-> 0, stop_stream |-> FALSE,
     started |-> FALSE, chunks |-> 0, reads |-> 0]

----------------------------------------------------------------------------
(* Values of the socket, the codec and the class before anything happens *)

\* The bound PAIR socket: inbox holds the frames that have arrived and wait
\* for recv_json; blocked says that a non-blocking send would raise zmq.Again
\* (no peer, or the high water mark is reached).
Bound == [inbox |-> <<>>, blocked |-> FALSE]

\* no message is under test
NoCodec == [step |-> "none"]

\* Network(): no socket, no thread, both flags false; rtc is the return value
\* of the last call of the main thread (<<>>: none), listen_rtc the one of
\* listen() in the listener thread
NoNetwork ==
    [sk |-> "none", isConnected |-> FALSE, isListening |-> FALSE,
     thread |-> "none", listen_rtc |-> <<>>, op |-> "none", rtc |-> <<>>,
     client |-> "none", calls |-> 0]

\* the number of frames check_for_speech cuts a buffer into: the buffer has
\* FRAMES_PER_BUFFER (4096) samples of 2 bytes, a frame of 20 ms has
\* n = 1280 bytes, and the loop runs while offset + n < len(chunk)
FramesInChunk == 6

\* VoiceServer.__init__: consecutive_frames=3
consecutive_frames == 3

\* the first lines of check_for_speech: not speaking, nothing sent, no buffer
\* taken yet (offset at the end of the buffer: the inner loop is over);
\* framecount is len(framecount), sent the speaking values of the
\* VOCALIZATION messages sent on the pipe, in order
NoVad ==
    [speaking |-> FALSE, framecount |-> 0, sent |-> <<>>, chunks |-> 0,
     offset |-> FramesInChunk]

\* the class when the module has been imported: _instance is None (0), no
\* controller has been made, no call has returned
NoController == [instance |-> 0, made |-> <<>>, result |-> "none", returned |-> 0]

\* the class after the experiment has made the one controller of the session
\* with RAMControl.instance(): made holds the address each controller is
\* bound to, instance is the position of _instance in it
OneController == [instance |-> 1, made |-> <<"tcp://192.168.137.200:8889">>,
                  result |-> "controller", returned |-> 1]

----------------------------------------------------------------------------
(* The world the methods act on *)

World ==
    [c |-> control, s |-> socket, wire |-> wire, callbacks |-> callbacks,
     app |-> app, obs |-> obs, proc |-> proc, exc |-> "none",
     pipe |-> pipe, gate |-> gate, sock |-> sock]

Raise(w, e) == [w EXCEPT !.exc = e]
\* a frame is given up without any handler having run
Dropped(w) == [w EXCEPT !.obs.dropped = TRUE]
Caught(w) == [w EXCEPT !.exc = "none"]
\* Logging (logger.error, logger.info) changes nothing the program reads and
\* is left out.

----------------------------------------------------------------------------
(* SocketServer: src/ramcontrol/zmqsocket.py *)

\* enqueue_message putting the message at the head of the queue (a LIFO queue)
enqueue_message_front(w, msg) ==
    [w EXCEPT !.s.out_queue = <<[msg EXCEPT !.enq = w.obs.enqueued + 1]>> \o @,
              !.obs.enqueued = @ + 1]

\* SocketServer.enqueue_message: Queue.put_nowait on the unbounded Queue()
enqueue_message(w, msg) ==
    [w EXCEPT !.s.out_queue = Append(@, [msg EXCEPT !.enq = w.obs.enqueued + 1]),
              !.obs.enqueued = @ + 1]

\* SocketServer.send: jsonize() runs outside the try block; what
\* sock.send(out, zmq.NOBLOCK) raises (zmq.Again when the socket cannot take
\* the message without blocking) is swallowed.
socket_send(w, msg) ==
    IF ~msg.json THEN Raise(w, "TypeError")
    ELSE IF w.sock.blocked THEN w
    ELSE [w EXCEPT !.wire = Append(@, msg)]

\* SocketServer.send(HeartbeatMessage()); heartbeat_sent is the time at which
\* the last HEARTBEAT was handed to the socket (-1: none yet)
send_heartbeat_message(w, t) ==
    socket_send([w EXCEPT !.obs.heartbeat_sent = t], HeartbeatMessage)

\* send_heartbeat without the test of the elapsed time
send_heartbeat_every_poll(w, t) ==
    LET r == send_heartbeat_message(w, t)
    IN  IF r.exc # "none" THEN r ELSE [r EXCEPT !.s.last_heartbeat = t]

\* SocketServer.send_heartbeat
send_heartbeat(w, t) ==
    IF t - w.s.last_heartbeat >= 1
    THEN LET r == send_heartbeat_message(w, t)
         IN  IF r.exc # "none" THEN r ELSE [r EXCEPT !.s.last_heartbeat = t]
    ELSE w

\* SocketServer.handle_outgoing: the while loop over the queue, inside one
\* try block: an exception from send() ends the loop and is logged.
RECURSIVE handle_outgoing(_)
handle_outgoing(w) ==
    IF w.s.out_queue = <<>> THEN w
    ELSE LET msg == Head(w.s.out_queue)
             got == [w EXCEPT !.s.out_queue = Tail(@)]
             r == socket_send(got, msg)
         IN  IF r.exc # "none" THEN Caught(r)
             ELSE handle_outgoing(r)

----------------------------------------------------------------------------
(* RAMControl, message handling: src/ramcontrol/control.py *)

\* send without the isinstance test
send_unchecked(w, message) == enqueue_message(w, message)

\* RAMControl.send
send(w, message) ==
    IF ~message.ramsg THEN w
    ELSE enqueue_message(w, message)

\* VoiceServer.quit, called in the main process: sets the shared Event
voice_server_quit(w) == [w EXCEPT !.pipe.done = TRUE]

\* RAMControl.shutdown.  With a voice server: quit(), voice_socket.close()
\* and join(timeout=1), which returns when the worker has ended or the
\* second has passed, whichever is first; nothing follows it.
\* SocketServer.join only logs a warning.
shutdown(w) ==
    LET r == send(w, ExitMessage)
        q == IF r.c.voice_server THEN voice_server_quit(r) ELSE r
    IN  [q EXCEPT !.obs.shutdowns = @ + 1]

\* RAMControl.id_handler
id_handler(w, msg) == w

\* sync_handler answering with the next sequence number
sync_handler_off_by_one(w, msg) ==
    IF msg.num = None THEN Raise(w, "KeyError")
    ELSE send(w, SyncMessage(msg.num[1] + 1))

\* RAMControl.sync_handler: msg["num"] raises KeyError when the key is absent
sync_handler(w, msg) ==
    IF msg.num = None THEN Raise(w, "KeyError")
    ELSE send(w, SyncMessage(msg.num[1]))

\* RAMControl.synced_handler
synced_handler(w, msg) == [w EXCEPT !.c.synced = TRUE]

\* RAMControl.exit_handler
exit_handler(w, msg) == shutdown(w)

\* connected_handler that acknowledges without setting _connected
connected_handler_ack_only(w, msg) ==
    enqueue_message([w EXCEPT !.obs.connected_received = TRUE], ConnectedMessage)

\* RAMControl.connected_handler
connected_handler(w, msg) ==
    enqueue_message([w EXCEPT !.c.connected = TRUE,
                              !.obs.connected_received = TRUE],
                    ConnectedMessage)

\* RAMControl.heartbeat_handler
heartbeat_handler(w, msg, t) == [w EXCEPT !.c.last_heartbeat_received = t]

\* RAMControl.start_handler
start_handler(w, msg) == [w EXCEPT !.c.started = TRUE]

\* RAMControl.handlers, as filled by __init__
handlers == {"ID", "SYNC", "SYNCED", "START", "EXIT", "HEARTBEAT", "CONNECTED"}

\* self.handlers[mtype](msg)
CallHandler(mtype, w, msg, t) ==
    CASE mtype = "ID" -> id_handler(w, msg)
      [] mtype = "SYNC" -> sync_handler(w, msg)
      [] mtype = "SYNCED" -> synced_handler(w, msg)
      [] mtype = "START" -> start_handler(w, msg)
      [] mtype = "EXIT" -> exit_handler(w, msg)
      [] mtype = "HEARTBEAT" -> heartbeat_handler(w, msg, t)
      [] mtype = "CONNECTED" -> connected_handler(w, msg)

\* dispatch falling back to the heartbeat handler for an unregistered type
\* (self.handlers.get(mtype, self.heartbeat_handler))
dispatch_default_handler(w, msg, t) ==
    IF msg.type = None THEN Dropped(w)
    ELSE IF msg.type[1] = Unhashable THEN Raise(w, "TypeError")
    ELSE IF msg.type[1] \notin handlers THEN heartbeat_handler(w, msg, t)
    ELSE LET r == CallHandler(msg.type[1], w, msg, t)
         IN  IF r.exc # "none"
             THEN Caught([r EXCEPT !.obs.handler_raised = TRUE])
             ELSE [r EXCEPT !.obs.after_raise = w.obs.handler_raised]

\* RAMControl.dispatch: a missing "type" key (KeyError) and an unregistered
\* type are logged and dropped; "mtype not in self.handlers" hashes mtype and
\* raises TypeError for an unhashable one; an Exception raised by the handler
\* is logged and dropped.
dispatch(w, msg, t) ==
    IF msg.type = None THEN Dropped(w)
    ELSE IF msg.type[1] = Unhashable THEN Raise(w, "TypeError")
    ELSE IF msg.type[1] \notin handlers THEN Dropped(w)
    ELSE LET r == CallHandler(msg.type[1], w, msg, t)
         IN  IF r.exc # "none"
             THEN Caught([r EXCEPT !.obs.handler_raised = TRUE])
             ELSE [r EXCEPT !.obs.after_raise = w.obs.handler_raised]

\* the frame is a HEARTBEAT message, which dispatch hands to heartbeat_handler
IsHeartbeat(f) == f.json = "object" /\ f.type = Some("HEARTBEAT")

\* what the first frame of the session was: a CONNECTED message or not
FrameTag(f) ==
    IF f.json = "object" /\ f.type = Some("CONNECTED") THEN "CONNECTED" ELSE "other"

----------------------------------------------------------------------------
(* SocketServer, the poll callback: src/ramcontrol/zmqsocket.py *)

\* handle_incoming without the try block around the handlers
handle_incoming_noguard(w, f, t) ==
    IF f.json = "none" THEN w
    ELSE LET got == [w EXCEPT !.obs.received = @ + 1,
                              !.obs.first_in = IF @ = "none" THEN FrameTag(f) ELSE @,
                              !.obs.alive_at = IF IsHeartbeat(f) THEN t ELSE @]
         IN  IF f.json # "object" THEN Dropped(got)
             ELSE dispatch(got, f, t)

\* SocketServer.handle_incoming, with f the frame the poller reports.
\* recv_json and log_message sit in one try block whose except clause returns;
\* log_message assigns message["in_or_out"], which only a dict accepts.  The
\* registered handlers (RAMControl.dispatch alone, control.py:118) run in a
\* try block whose bare except clause logs and continues.
handle_incoming(w, f, t) ==
    IF f.json = "none" THEN w
    ELSE LET got == [w EXCEPT !.obs.received = @ + 1,
                              !.obs.first_in = IF @ = "none" THEN FrameTag(f) ELSE @,
                              !.obs.alive_at = IF IsHeartbeat(f) THEN t ELSE @]
         IN  IF f.json # "object" THEN Dropped(got)
             ELSE LET r == dispatch(got, f, t)
                  IN  IF r.exc # "none" THEN Dropped(Caught(r)) ELSE r

\* SocketServer.update
update(w, f, t) ==
    LET r == handle_incoming(w, f, t)
    IN  IF r.exc # "none" THEN r ELSE handle_outgoing(r)

----------------------------------------------------------------------------
(* RAMControl, liveness and the API: src/ramcontrol/control.py *)

\* sys.exit(status): raises SystemExit; exit_status is the status the
\* process ends with (-1 while it has not exited)
sys_exit(w, status) == Raise([w EXCEPT !.obs.exit_status = status], "SystemExit")

\* check_connection without the test of the elapsed time
check_connection_no_elapsed(w, t) ==
    IF w.c.last_heartbeat_received > 0
    THEN IF w.c.connected
         THEN sys_exit(shutdown([w EXCEPT !.c.connected = FALSE, !.obs.timeouts = @ + 1]),
                       0)
         ELSE [w EXCEPT !.c.connected = TRUE]
    ELSE w

\* check_connection exiting without the call of shutdown()
check_connection_no_shutdown(w, t) ==
    IF w.c.last_heartbeat_received > 0
    THEN IF t - w.c.last_heartbeat_received >= w.c.connection_timeout /\ w.c.connected
         THEN sys_exit([w EXCEPT !.c.connected = FALSE, !.obs.timeouts = @ + 1], 0)
         ELSE [w EXCEPT !.c.connected = TRUE]
    ELSE w

\* RAMControl.check_connection
check_connection(w, t) ==
    IF w.c.last_heartbeat_received > 0
    THEN IF t - w.c.last_heartbeat_received >= w.c.connection_timeout /\ w.c.connected
         THEN sys_exit(shutdown([w EXCEPT !.c.connected = FALSE, !.obs.timeouts = @ + 1]),
                       0)
         ELSE [w EXCEPT !.c.connected = TRUE]
    ELSE w

\* The experiment code enters a method of the controller ...
Enter(w, op) == [w EXCEPT !.app = [pc |-> op, op |-> op, exc |-> "none"],
                          !.obs.calls = @ + 1]
\* ... and the method returns, or raises e to it
Return(w) == [w EXCEPT !.app.pc = "idle"]
RaiseToCaller(w, e) == [w EXCEPT !.app.pc = "idle", !.app.exc = e]

\* RAMControl.configure
configure(w, cfg) ==
    Return([w EXCEPT !.c.experiment = cfg.experiment,
                     !.c.version = cfg.version,
                     !.c.session_num = cfg.session_num,
                     !.c.subject = cfg.subject,
                     !.c.configured = TRUE,
                     !.callbacks = @ \cup {"update", "check_connection"}
                                     \cup (IF w.c.voice_server
                                           THEN {"check_voice_server"} ELSE {})])

\* RAMControl.start_heartbeat
start_heartbeat(w) == [w EXCEPT !.callbacks = @ \cup {"send_heartbeat"}]

\* connection_made sending the version ahead of the experiment name
connection_made_swapped(w, t) ==
    LET a == [w EXCEPT !.c.last_heartbeat_received = t]
        b == send(a, VersionMessage(a.c.version))
        c == send(b, ExperimentNameMessage(b.c.experiment))
        d == send(c, SessionMessage(c.c.session_num, ""))
        e == send(d, SubjectIdMessage(d.c.subject))
    IN  [e EXCEPT !.app.pc = "idle", !.callbacks = @ \cup {"send_heartbeat"}]

\* RAMControl.initiate_connection, after its while loop
connection_made(w, t) ==
    LET a == [w EXCEPT !.c.last_heartbeat_received = t, !.obs.alive_at = t]
        b == send(a, ExperimentNameMessage(a.c.experiment))
        c == send(b, VersionMessage(b.c.version))
        d == send(c, SessionMessage(c.c.session_num, ""))
        e == send(d, SubjectIdMessage(d.c.subject))
    IN  Return(start_heartbeat(e))

\* initiate_connection starting the heartbeat before it waits for the host
initiate_connection_eager_heartbeat(w, t) ==
    IF ~w.c.configured THEN RaiseToCaller(w, "RamException")
    ELSE IF ~w.c.connected THEN start_heartbeat(w)
    ELSE connection_made(w, t)

\* initiate_connection without the test of _configured
initiate_connection_unchecked(w, t) ==
    IF ~w.c.connected THEN w
    ELSE connection_made(w, t)

\* RAMControl.initiate_connection, up to its while loop
initiate_connection(w, t) ==
    IF ~w.c.configured THEN RaiseToCaller(w, "RamException")
    ELSE IF ~w.c.connected THEN w
    ELSE connection_made(w, t)

\* RAMControl.align_clocks.  The loop test "not self._synced" is applied to
\* the threading.Event object itself, which defines neither __nonzero__ nor
\* __len__ and is therefore true: the loop body never runs.
align_clocks(w) ==
    Return(send([w EXCEPT !.c.synced = FALSE], AlignClockMessage))

\* wait_for_start_message without the test of _connected
wait_for_start_message_unchecked(w) ==
    LET r == send(w, ReadyMessage)
    IN  IF r.c.started THEN Return(r) ELSE r

\* RAMControl.wait_for_start_message, up to its while loop
wait_for_start_message(w) ==
    IF ~w.c.connected THEN RaiseToCaller(w, "RamException")
    ELSE LET r == send(w, ReadyMessage)
         IN  IF r.c.started THEN Return(r) ELSE r

----------------------------------------------------------------------------
(* RAMControl, the voice gate: src/ramcontrol/control.py *)

\* the number of polls of the STOPPED wait: range(6)
StopTries == 6

\* RAMControl.MAX_QUEUE_SIZE
MAX_QUEUE_SIZE == 32

\* what the listener socket of the voice server delivers to check_voice_server
NoVoiceMsg == [type |-> "none", speaking |-> "none"]
VoiceSocketMsgs ==
    { [type |-> "VOCALIZATION", speaking |-> "True"],
      [type |-> "VOCALIZATION", speaking |-> "False"],
      [type |-> "MALFORMED", speaking |-> "none"] }

\* voice_pipe.send
pipe_send(w, msg) == [w EXCEPT !.pipe.to_worker = Append(@, msg)]

\* an exception leaves voice_detector() and reaches the with statement
GateRaise(w, e) == [w EXCEPT !.gate.pc = "idle", !.gate.exc = e]

\* voice_detector, from its entry to the poll of the STARTED wait; without a
\* voice server it yields at once
voice_detector(w) ==
    LET g == [w EXCEPT !.gate.inv = @ + 1, !.gate.exc = "none", !.gate.polls = 0,
                       !.gate.read = {}]
    IN  IF w.c.voice_server
        THEN [pipe_send(g, [ipc_message("START", None) EXCEPT !.inv = g.gate.inv])
                 EXCEPT !.gate.pc = "start_wait", !.gate.at = "start"]
        ELSE [g EXCEPT !.gate.pc = "region", !.gate.at = "region",
                       !.gate.entered = @ + 1]

\* the STARTED wait entering the wrapped region when the poll times out
started_wait_no_timeout(w) ==
    IF w.pipe.to_main = <<>>
    THEN [w EXCEPT !.gate.pc = "region", !.gate.at = "region",
                   !.gate.ack = w.gate.inv, !.gate.entered = @ + 1]
    ELSE LET response == Head(w.pipe.to_main)
             got == [w EXCEPT !.pipe.to_main = Tail(@)]
         IN  IF response.type # "STARTED" THEN GateRaise(got, "AssertionError")
             ELSE [got EXCEPT !.gate.pc = "region", !.gate.at = "region",
                              !.gate.ack = response.inv, !.gate.entered = @ + 1]

\* voice_detector, the STARTED wait: poll(0.1) finds the pipe empty after
\* 100 ms, or recv() and the assert on the type of the response; then the
\* yield.  ack is the invocation the accepted STARTED answers.
started_wait(w) ==
    IF w.pipe.to_main = <<>>
    THEN GateRaise(w, "VoiceServerError")
    ELSE LET response == Head(w.pipe.to_main)
             got == [w EXCEPT !.pipe.to_main = Tail(@)]
         IN  IF response.type # "STARTED" THEN GateRaise(got, "AssertionError")
             ELSE [got EXCEPT !.gate.pc = "region", !.gate.at = "region",
                              !.gate.ack = response.inv, !.gate.entered = @ + 1]

\* voice_detector after the yield, when the wrapped region has returned
region_done(w) ==
    IF w.c.voice_server
    THEN [pipe_send(w, ipc_message("STOP", None))
             EXCEPT !.gate.pc = "stop_wait", !.gate.at = "stop",
                    !.gate.stops = @ + 1]
    ELSE [w EXCEPT !.gate.pc = "idle"]

\* The wrapped region raises: contextmanager throws the exception into the
\* generator at the yield, which is in no try block, so it leaves
\* voice_detector at once.
region_raised(w) == GateRaise(w, "RegionError")

\* the STOPPED wait taking any message for the acknowledgment
stopped_wait_any_message(w) ==
    LET polled == [w EXCEPT !.gate.polls = @ + 1]
        tried ==
            IF w.pipe.to_main = <<>> THEN polled
            ELSE LET response == Head(w.pipe.to_main)
                 IN  [polled EXCEPT !.pipe.to_main = Tail(@),
                                    !.gate.read = @ \cup {response.type},
                                    !.gate.pc = "idle"]
    IN  IF tried.gate.pc = "stop_wait" /\ tried.gate.polls = StopTries
        THEN GateRaise(tried, "VoiceServerError")
        ELSE tried

\* voice_detector, one turn of the for loop of the STOPPED wait, and its else
\* clause after the last turn; read is the set of types received in the wait
stopped_wait(w) ==
    LET polled == [w EXCEPT !.gate.polls = @ + 1]
        tried ==
            IF w.pipe.to_main = <<>> THEN polled
            ELSE LET response == Head(w.pipe.to_main)
                     got == [polled EXCEPT !.pipe.to_main = Tail(@),
                                           !.gate.read = @ \cup {response.type}]
                 IN  IF response.type = "STOPPED"
                     THEN [got EXCEPT !.gate.pc = "idle"]
                     ELSE got
    IN  IF tried.gate.pc = "stop_wait" /\ tried.gate.polls = StopTries
        THEN GateRaise(tried, "VoiceServerError")
        ELSE tried

\* RAMControl.check_voice_server: the listener socket, then the pipe
check_voice_server(w, vmsg) ==
    LET a == IF vmsg.type = "VOCALIZATION"
             THEN enqueue_message(w, StateMessage("VOCALIZATION", vmsg.speaking))
             ELSE w
    IN  IF a.pipe.to_main = <<>> THEN a
        ELSE LET msg == Head(a.pipe.to_main)
                 got == [a EXCEPT !.pipe.to_main = Tail(@)]
             IN  IF msg.type = "CRITICAL" THEN Raise(got, "VoiceServerError")
                 ELSE got

----------------------------------------------------------------------------
(* The state machine *)

\* RAMControl.__init__ and SocketServer.__init__
Init ==
    /\ control = [configured |-> FALSE, connected |-> FALSE, synced |-> FALSE,
                  started |-> FALSE, last_heartbeat_received |-> -1,
                  connection_timeout |-> ConnectionTimeout,
                  experiment |-> "", version |-> "", session_num |-> "-1",
                  subject |-> "", voice_server |-> FALSE]
    /\ socket = [out_queue |-> <<>>, last_heartbeat |-> 0]
    /\ wire = <<>>
    /\ callbacks = {}
    /\ app = [pc |-> "idle", op |-> "none", exc |-> "none"]
    /\ obs = [enqueued |-> 0, received |-> 0, first_in |-> "none",
              shutdowns |-> 0, timeouts |-> 0, calls |-> 0, dropped |-> FALSE,
              handler_raised |-> FALSE, after_raise |-> FALSE,
              connected_received |-> FALSE, exit_status |-> -1,
              alive_at |-> -1, heartbeat_sent |-> -1, requests |-> 0]
    /\ proc = "running"
    /\ now = StartTime
    /\ pipe = NoPipe
    /\ gate = GateIdle
    /\ worker = NoWorker
    /\ sock = Bound
    /\ codec = NoCodec
    /\ class = OneController
    /\ net = NoNetwork
    /\ vad = NoVad

\* An exception that leaves a poll callback ends the process: SystemExit is
\* sys.exit, anything else is a crash.
Commit(w) ==
    /\ control' = w.c
    /\ socket' = w.s
    /\ wire' = w.wire
    /\ callbacks' = w.callbacks
    /\ app' = w.app
    /\ obs' = w.obs
    /\ proc' = IF w.exc = "none" THEN w.proc
               ELSE IF w.exc = "SystemExit" THEN "exited" ELSE "crashed"
    /\ pipe' = w.pipe
    /\ gate' = w.gate
    /\ sock' = w.sock
    /\ UNCHANGED <<now, worker, codec, class, net, vad>>

\* time passes
Tick ==
    /\ proc = "running"
    /\ now < MaxTime
    /\ now' = now + 1
    /\ UNCHANGED <<control, socket, wire, callbacks, app, obs, proc, pipe, gate, worker,
                   sock, codec, class, net, vad>>

\* poll callback socket.update, with the frame the host has sent, if any
Update ==
    /\ proc = "running"
    /\ "update" \in callbacks
    /\ \E f \in Frames \cup {NoFrame} :
          /\ f # NoFrame => obs.received < MaxIn
          /\ Commit(update(World, f, now))

\* poll callback check_connection
CheckConnection ==
    /\ proc = "running"
    /\ "check_connection" \in callbacks
    /\ Commit(check_connection(World, now))

\* poll callback socket.send_heartbeat
SendHeartbeat ==
    /\ proc = "running"
    /\ "send_heartbeat" \in callbacks
    /\ Commit(send_heartbeat(World, now))

\* the experiment code is free to call the controller
CanCall == proc = "running" /\ app.pc = "idle" /\ obs.calls < MaxCalls

Configure ==
    /\ CanCall
    /\ \E cfg \in Configs : Commit(configure(Enter(World, "configure"), cfg))

InitiateConnection ==
    /\ CanCall
    /\ Commit(initiate_connection(Enter(World, "initiate_connection"), now))

\* the while loop of initiate_connection finds _connected set
ConnectionMade ==
    /\ proc = "running"
    /\ app.pc = "initiate_connection"
    /\ control.connected
    /\ Commit(connection_made(World, now))

AlignClocks ==
    /\ CanCall
    /\ Commit(align_clocks(Enter(World, "align_clocks")))

WaitForStartMessage ==
    /\ CanCall
    /\ Commit(wait_for_start_message(Enter(World, "wait_for_start_message")))

\* the while loop of wait_for_start_message finds _started set
StartSeen ==
    /\ proc = "running"
    /\ app.pc = "wait_for_start_message"
    /\ control.started
    /\ Commit(Return(World))

Send ==
    /\ CanCall
    /\ \E x \in SendInputs : Commit(Return(send(Enter(World, "send"), x)))

Shutdown ==
    /\ CanCall
    /\ Commit(Return(shutdown(Enter(World, "shutdown"))))

Next ==
    \/ Tick
    \/ Update
    \/ CheckConnection
    \/ SendHeartbeat
    \/ Configure
    \/ InitiateConnection
    \/ ConnectionMade
    \/ AlignClocks
    \/ WaitForStartMessage
    \/ StartSeen
    \/ Send
    \/ Shutdown

Spec == Init /\ [][Next]_vars

TypeOK ==
    /\ proc \in {"running", "exited", "crashed"}
    /\ app.pc \in {"idle", "initiate_connection", "wait_for_start_message"}
    /\ now \in StartTime..MaxTime
    /\ callbacks \subseteq {"update", "check_connection", "send_heartbeat",
                            "check_voice_server"}

----------------------------------------------------------------------------
(* The state machine with a voice server: control.py and voiceserver.py *)

\* In this specification the controller is constructed with a voice server
\* (RAM_CONFIG has "voiceserver": true) and the host stays silent.  The main
\* process is one thread: while voice_detector() sits in a poll of the pipe
\* no poll callback runs; the callbacks run while the experiment code is in
\* the wrapped region or outside voice_detector().  The VoiceServer process
\* and its threads run at their own speed.

\* RAMControl.__init__ with a voice server: Pipe(), VoiceServer(...).start()
VoiceInit ==
    /\ control = [configured |-> FALSE, connected |-> FALSE, synced |-> FALSE,
                  started |-> FALSE, last_heartbeat_received |-> -1,
                  connection_timeout |-> ConnectionTimeout,
                  experiment |-> "", version |-> "", session_num |-> "-1",
                  subject |-> "", voice_server |-> TRUE]
    /\ socket = [out_queue |-> <<>>, last_heartbeat |-> 0]
    /\ wire = <<>>
    /\ callbacks = {}
    /\ app = [pc |-> "idle", op |-> "none", exc |-> "none"]
    /\ obs = [enqueued |-> 0, received |-> 0, first_in |-> "none",
              shutdowns |-> 0, timeouts |-> 0, calls |-> 0, dropped |-> FALSE,
              handler_raised |-> FALSE, after_raise |-> FALSE,
              connected_received |-> FALSE, exit_status |-> -1,
              alive_at |-> -1, heartbeat_sent |-> -1, requests |-> 0]
    /\ proc = "running"
    /\ now = StartTime
    /\ pipe = NoPipe
    /\ gate = GateIdle
    /\ worker = [NoWorker EXCEPT !.alive = TRUE]
    /\ sock = Bound
    /\ codec = NoCodec
    /\ class = OneController
    /\ net = NoNetwork
    /\ vad = NoVad

\* the experiment code is not inside one of the polls of voice_detector()
Polling == proc = "running" /\ gate.pc \in {"idle", "region"}

\* configure(), which registers check_voice_server; the experiment code
\* calls it once
VoiceConfigure ==
    /\ Polling
    /\ app.pc = "idle"
    /\ obs.calls < MaxCalls
    /\ ~control.configured
    /\ \E cfg \in Configs : Commit(configure(Enter(World, "configure"), cfg))

\* the experiment code enters "with controller.voice_detector():"
VoiceDetector ==
    /\ proc = "running"
    /\ gate.pc = "idle"
    /\ gate.inv < MaxGates
    /\ Commit(voice_detector(World))

StartedWait ==
    /\ proc = "running"
    /\ gate.pc = "start_wait"
    /\ Commit(started_wait(World))

\* the wrapped region returns
RegionDone ==
    /\ proc = "running"
    /\ gate.pc = "region"
    /\ Commit(region_done(World))

\* the wrapped region raises
RegionRaised ==
    /\ proc = "running"
    /\ gate.pc = "region"
    /\ Commit(region_raised(World))

StoppedWait ==
    /\ proc = "running"
    /\ gate.pc = "stop_wait"
    /\ Commit(stopped_wait(World))

\* poll callback check_voice_server, with what the listener socket holds
CheckVoiceServer ==
    /\ Polling
    /\ "check_voice_server" \in callbacks
    /\ \E vmsg \in VoiceSocketMsgs \cup {NoVoiceMsg} :
          /\ vmsg # NoVoiceMsg => obs.enqueued < MaxVoiceMsgs
          /\ Commit(check_voice_server(World, vmsg))

\* poll callback socket.update while the host sends nothing
UpdateSilent ==
    /\ Polling
    /\ "update" \in callbacks
    /\ Commit(update(World, NoFrame, now))

\* VoiceServer.run, one turn of its loop: pipe.recv(), which blocks until a
\* message is there, the branch on the type, and the test of the loop
\* ("while not self.done.is_set()"), after which run() ends or blocks in
\* recv() again.  When open_audio_stream fails it sends CRITICAL and raises,
\* which ends run() and the process with its threads: the requests that
\* follow are never read.
VoiceServerRun ==
    /\ worker.alive
    /\ pipe.to_worker # <<>>
    /\ LET msg == Head(pipe.to_worker)
           rest == [pipe EXCEPT !.to_worker = Tail(@)]
       IN  \/ /\ msg.type = "START"
              /\ worker' = [worker EXCEPT !.readers = @ + 1, !.started = TRUE,
                                          !.alive = ~pipe.done]
              /\ pipe' = [rest EXCEPT !.to_main =
                            Append(@, [ipc_message("STARTED", None) EXCEPT !.inv = msg.inv])]
           \/ /\ msg.type = "START"
              /\ worker' = [worker EXCEPT !.alive = FALSE, !.readers = 0, !.leaving = 0]
              /\ pipe' = [rest EXCEPT !.to_main =
                            Append(@, critical_error_message("Failed to open audio stream"))]
           \/ /\ msg.type = "STOP"
              /\ worker' = [worker EXCEPT !.stop_stream = TRUE, !.started = FALSE,
                                          !.alive = ~pipe.done]
              /\ pipe' = [rest EXCEPT !.to_main = Append(@, ipc_message("STOPPED", None))]
    /\ UNCHANGED <<control, socket, wire, callbacks, app, obs, proc, now, gate,
                   sock, codec, class, net, vad>>

\* VoiceServer.read_audio_stream (a microphone thread), one turn of its
\* loop: it leaves the loop when stop_stream is set, else it reads a buffer
\* and queues it, or the read fails with IOError and CRITICAL is sent
ReadAudioStream ==
    /\ worker.readers > 0
    /\ \/ /\ worker.stop_stream
          /\ worker' = [worker EXCEPT !.readers = @ - 1, !.leaving = @ + 1]
          /\ UNCHANGED pipe
       \/ /\ ~worker.stop_stream
          /\ worker.reads < MaxReads
          /\ worker' = [worker EXCEPT !.reads = @ + 1, !.chunks = @ + 1]
          /\ UNCHANGED pipe
       \/ /\ ~worker.stop_stream
          /\ worker.reads < MaxReads
          /\ worker' = [worker EXCEPT !.reads = @ + 1]
          /\ pipe' = [pipe EXCEPT !.to_main = Append(@, critical_error_message("IOError"))]
    /\ UNCHANGED <<control, socket, wire, callbacks, app, obs, proc, now, gate,
                   sock, codec, class, net, vad>>

\* VoiceServer.read_audio_stream after its loop: stream.close() and
\* self.stop_stream.clear()
ReaderLeaves ==
    /\ worker.leaving > 0
    /\ worker' = [worker EXCEPT !.leaving = @ - 1, !.stop_stream = FALSE]
    /\ UNCHANGED <<control, socket, wire, callbacks, app, obs, proc, now, pipe, gate,
                   sock, codec, class, net, vad>>

\* VoiceServer.check_for_speech (the detection thread), one turn of its loop
\* over a queued buffer, as far as the main process can tell: nothing is
\* sent, or a speech onset or offset, or the timestamp (VadSpec has the
\* function frame by frame)
CheckForSpeech ==
    /\ worker.chunks > 0
    /\ worker' = [worker EXCEPT !.chunks = @ - 1]
    /\ \E out \in { <<>>, <<"VOCALIZATION">>, <<"TIMESTAMP">> } :
          pipe' = [pipe EXCEPT !.to_main =
                      @ \o [i \in DOMAIN out |-> ipc_message(out[i], Some("payload"))]]
    /\ UNCHANGED <<control, socket, wire, callbacks, app, obs, proc, now, gate,
                   sock, codec, class, net, vad>>

VoiceNext ==
    \/ VoiceConfigure
    \/ VoiceDetector
    \/ StartedWait
    \/ RegionDone
    \/ RegionRaised
    \/ StoppedWait
    \/ CheckVoiceServer
    \/ UpdateSilent
    \/ VoiceServerRun
    \/ ReadAudioStream
    \/ ReaderLeaves
    \/ CheckForSpeech

VoiceSpec == VoiceInit /\ [][VoiceNext]_vars

----------------------------------------------------------------------------
(* The state machine of the worker process: voiceserver.py *)

\* In this specification the main process writes START and STOP requests to
\* the pipe in any order and may call shutdown(); the worker and its threads
\* are the ones of VoiceSpec.

\* voice_pipe.send(ipc.message("START")) or voice_pipe.send(ipc.message("STOP"))
PipeRequest ==
    /\ proc = "running"
    /\ obs.requests < MaxRequests
    /\ \E ty \in {"START", "STOP"} :
          Commit(pipe_send([World EXCEPT !.obs.requests = @ + 1], ipc_message(ty, None)))

\* the main process calls shutdown()
WorkerShutdown ==
    /\ proc = "running"
    /\ obs.shutdowns = 0
    /\ Commit(shutdown(World))

WorkerNext ==
    \/ PipeRequest
    \/ WorkerShutdown
    \/ VoiceServerRun
    \/ ReadAudioStream
    \/ ReaderLeaves
    \/ CheckForSpeech

WorkerSpec == VoiceInit /\ [][WorkerNext]_vars

----------------------------------------------------------------------------
(* The state machine of the transport: zmqsocket.py *)

\* In this specification the frames of the host wait in the socket until
\* recv_json takes them, and the socket may be unable to send without
\* blocking.

\* the frames the host sends here
HostFrames ==
    { Frame(Some("SYNC"), Some(1)), Frame(Some("START"), None),
      Frame(Some("BOGUS"), None) }

\* a frame of the host arrives at the socket
HostSends ==
    /\ proc = "running"
    /\ obs.received + Len(sock.inbox) < MaxIn
    /\ \E f \in HostFrames : sock' = [sock EXCEPT !.inbox = Append(@, f)]
    /\ UNCHANGED <<control, socket, wire, callbacks, app, obs, proc, now, pipe, gate,
                   worker, codec, class, net, vad>>

\* the peer goes away or stops reading: sends would block from now on
Stall ==
    /\ proc = "running"
    /\ ~sock.blocked
    /\ sock' = [sock EXCEPT !.blocked = TRUE]
    /\ UNCHANGED <<control, socket, wire, callbacks, app, obs, proc, now, pipe, gate,
                   worker, codec, class, net, vad>>

\* the peer reads again
Resume ==
    /\ proc = "running"
    /\ sock.blocked
    /\ sock' = [sock EXCEPT !.blocked = FALSE]
    /\ UNCHANGED <<control, socket, wire, callbacks, app, obs, proc, now, pipe, gate,
                   worker, codec, class, net, vad>>

\* poll callback socket.update: poller.poll(1) and one recv_json when the
\* socket is readable, then handle_outgoing
UpdateSocket ==
    /\ proc = "running"
    /\ "update" \in callbacks
    /\ IF sock.inbox = <<>>
       THEN Commit(update(World, NoFrame, now))
       ELSE Commit(update([World EXCEPT !.sock.inbox = Tail(@)], Head(sock.inbox), now))

\* the experiment code calls controller.send(x)
Enqueue ==
    /\ proc = "running"
    /\ obs.enqueued < MaxSends
    /\ \E x \in SendInputs : Commit(send(World, x))

TransportNext ==
    \/ Configure
    \/ HostSends
    \/ Stall
    \/ Resume
    \/ UpdateSocket
    \/ Enqueue

TransportSpec == Init /\ [][TransportNext]_vars

\* The state machine of a burst of sends: the experiment code calls
\* controller.send with ordinary messages, many times between two polls.
EnqueueBurst ==
    /\ proc = "running"
    /\ obs.enqueued < MaxBurst
    /\ Commit(send(World, StateMessage("WORD", "True")))

QueueNext ==
    \/ Configure
    \/ EnqueueBurst
    \/ UpdateSilent

QueueSpec == Init /\ [][QueueNext]_vars

----------------------------------------------------------------------------
(* The state machine of the wait for the host: initiate_connection *)

\* In this specification the poll callbacks run only inside the loop of
\* initiate_connection(), as its poll_callback (flashStimulus, which runs the
\* poll loop): each turn of the loop sleeps one poll interval and then makes
\* the callbacks run.  One turn takes less than connection_timeout.

\* the poll callbacks that are registered, in the order of their registration
poll_callbacks(w, f, t) ==
    LET a == IF "update" \in w.callbacks THEN update(w, f, t) ELSE w
        b == IF a.exc = "none" /\ "check_connection" \in a.callbacks
             THEN check_connection(a, t) ELSE a
    IN  IF b.exc = "none" /\ "send_heartbeat" \in b.callbacks
        THEN send_heartbeat(b, t) ELSE b

\* the end of an action during which the clock has reached t
CommitAt(w, t) ==
    /\ control' = w.c
    /\ socket' = w.s
    /\ wire' = w.wire
    /\ callbacks' = w.callbacks
    /\ app' = w.app
    /\ obs' = w.obs
    /\ proc' = IF w.exc = "none" THEN w.proc
               ELSE IF w.exc = "SystemExit" THEN "exited" ELSE "crashed"
    /\ pipe' = w.pipe
    /\ gate' = w.gate
    /\ sock' = w.sock
    /\ now' = t
    /\ UNCHANGED <<worker, codec, class, net, vad>>

\* the host sends CONNECTED, once
HostConnects ==
    /\ proc = "running"
    /\ ~obs.connected_received
    /\ \A i \in DOMAIN sock.inbox : sock.inbox[i] # Frame(Some("CONNECTED"), None)
    /\ sock' = [sock EXCEPT !.inbox = Append(@, Frame(Some("CONNECTED"), None))]
    /\ UNCHANGED <<control, socket, wire, callbacks, app, obs, proc, now, pipe, gate,
                   worker, codec, class, net, vad>>

\* what else the host may send before CONNECTED: an early HEARTBEAT, an EXIT,
\* a frame whose type cannot be looked up
ChatterFrames ==
    { Frame(Some("HEARTBEAT"), None), Frame(Some("EXIT"), None),
      Frame(Some(Unhashable), None) }

\* the host sends something else
HostChatter ==
    /\ proc = "running"
    /\ obs.received + Len(sock.inbox) < MaxIn
    /\ \E f \in ChatterFrames :
          sock' = [sock EXCEPT !.inbox = Append(@, f)]
    /\ UNCHANGED <<control, socket, wire, callbacks, app, obs, proc, now, pipe, gate,
                   worker, codec, class, net, vad>>

\* one turn of "while not self._connected": time.sleep(poll_interval), then
\* poll_callback()
Poll ==
    /\ proc = "running"
    /\ app.pc = "initiate_connection"
    /\ ~control.connected
    /\ LET t == IF now < MaxTime THEN now + 1 ELSE now
       IN  IF sock.inbox = <<>>
           THEN CommitAt(poll_callbacks(World, NoFrame, t), t)
           ELSE CommitAt(poll_callbacks([World EXCEPT !.sock.inbox = Tail(@)],
                                        Head(sock.inbox), t), t)

ConnectNext ==
    \/ Configure
    \/ InitiateConnection
    \/ HostConnects
    \/ HostChatter
    \/ Poll
    \/ ConnectionMade

\* the loop keeps turning, the test of the loop is made after each turn, and
\* the host sends CONNECTED at some time
ConnectSpec ==
    /\ Init
    /\ [][ConnectNext]_vars
    /\ WF_vars(Poll)
    /\ WF_vars(ConnectionMade)
    /\ WF_vars(HostConnects)

----------------------------------------------------------------------------
(* The message codec: src/source/pylib/messages.py *)

\* Python values, as far as json tells them apart: the kind and the content
\* (a sequence of numbers: the items, the characters, or the one number).
Py(kind, v) == [py |-> kind, v |-> v]
PyNone == Py("None", <<>>)

\* what the callers hand over as data and aux_data
DataValues ==
    { PyNone, Py("str", <<1>>), Py("int", <<1>>), Py("dict", <<1, 2>>),
      Py("list", <<1, 2>>), Py("tuple", <<1, 2>>) }
\* the timestamp argument: absent, zero, or a time in ms
TimestampArgs == { PyNone, Py("int", <<0>>), Py("int", <<1500>>) }
EventTypes == { "STATE", "SYNC" }

\* RAMMessage.now: time.time() * 1000
message_now(t) == Py("int", <<t * 1000>>)

\* RAMMessage.__init__ with all of its fields: "timestamp or self.now()"
\* takes the clock for every timestamp that is false (None and 0)
RAMMessage_init(event_type, timestamp, data, aux_data, t) ==
    [event_type |-> event_type,
     timestamp |-> IF timestamp \in {PyNone, Py("int", <<0>>)}
                   THEN message_now(t) ELSE timestamp,
     data |-> data,
     aux_data |-> aux_data]

\* RAMMessage.to_dict
to_dict(m) ==
    [time |-> m.timestamp, type |-> m.event_type, data |-> m.data,
     aux |-> m.aux_data]

\* json.dumps of one value: tuples and lists are both written as arrays
json_dumps(x) ==
    [js |-> CASE x.py = "None" -> "null"
              [] x.py = "int" -> "number"
              [] x.py = "str" -> "string"
              [] x.py \in {"list", "tuple"} -> "array"
              [] x.py = "dict" -> "object",
     v |-> x.v]

\* json.loads of one value: every array comes back as a list
json_loads(j) ==
    Py(CASE j.js = "null" -> "None"
         [] j.js = "number" -> "int"
         [] j.js = "string" -> "str"
         [] j.js = "array" -> "list"
         [] j.js = "object" -> "dict",
       j.v)

\* RAMMessage.jsonize: json.dumps(self.to_dict())
jsonize(m) ==
    LET d == to_dict(m)
    IN  [time |-> json_dumps(d.time), type |-> d.type, data |-> json_dumps(d.data),
         aux |-> json_dumps(d.aux)]

\* the message built from the encoded form: json.loads, then the constructor
\* with the four entries of the dict
rebuild(encoded, t) ==
    RAMMessage_init(encoded.type, json_loads(encoded.time), json_loads(encoded.data),
                    json_loads(encoded.aux), t)

\* a message is constructed
Build ==
    /\ codec.step = "none"
    /\ \E ty \in EventTypes, ts \in TimestampArgs, data \in DataValues,
          aux \in {PyNone, Py("int", <<1>>)} :
          codec' = [step |-> "built", arg |-> ts,
                    m |-> RAMMessage_init(ty, ts, data, aux, now)]
    /\ UNCHANGED <<control, socket, wire, callbacks, app, obs, proc, now, pipe, gate,
                   worker, sock, class, net, vad>>

\* it is encoded
Jsonize ==
    /\ codec.step = "built"
    /\ codec' = [step |-> "encoded", arg |-> codec.arg, m |-> codec.m,
                 encoded |-> jsonize(codec.m)]
    /\ UNCHANGED <<control, socket, wire, callbacks, app, obs, proc, now, pipe, gate,
                   worker, sock, class, net, vad>>

\* and a message is rebuilt from the encoded form
Rebuild ==
    /\ codec.step = "encoded"
    /\ codec' = [step |-> "rebuilt", arg |-> codec.arg, m |-> codec.m,
                 encoded |-> codec.encoded,
                 back |-> rebuild(codec.encoded, now)]
    /\ UNCHANGED <<control, socket, wire, callbacks, app, obs, proc, now, pipe, gate,
                   worker, sock, class, net, vad>>

CodecNext ==
    \/ Tick
    \/ Build
    \/ Jsonize
    \/ Rebuild

CodecSpec == Init /\ [][CodecNext]_vars

----------------------------------------------------------------------------
(* The class: RAMControl._instance, the constructor and instance() *)

\* the addresses a caller may pass; the first is the default of the constructor
Addresses ==
    { "tcp://192.168.137.200:8889", "tcp://192.168.137.200:8890",
      "tcp://127.0.0.1:8889", "tcp://127.0.0.1:8890" }

\* the addresses some controller's socket is bound to
BoundAddresses(cl) == { cl.made[i] : i \in 1..Len(cl.made) }

\* RAMControl(address): refuses when _instance is set; otherwise makes the
\* socket and binds it, which the system refuses for an address in use;
\* _instance is not assigned here
RAMControl_init(cl, address) ==
    IF cl.instance # 0
    THEN [cl EXCEPT !.result = "Exception", !.returned = 0]
    ELSE IF address \in BoundAddresses(cl)
    THEN [cl EXCEPT !.result = "ZMQError", !.returned = 0]
    ELSE [cl EXCEPT !.made = Append(@, address), !.result = "controller",
                    !.returned = Len(cl.made) + 1]

\* RAMControl.instance(address): constructs and keeps the controller when
\* _instance is None, and returns _instance
instance(cl, address) ==
    IF cl.instance = 0
    THEN LET r == RAMControl_init(cl, address)
         IN  IF r.result = "controller" THEN [r EXCEPT !.instance = r.returned]
             ELSE r
    ELSE [cl EXCEPT !.result = "controller", !.returned = cl.instance]

\* the process before any controller exists
SingletonInit ==
    /\ control = [configured |-> FALSE, connected |-> FALSE, synced |-> FALSE,
                  started |-> FALSE, last_heartbeat_received |-> -1,
                  connection_timeout |-> ConnectionTimeout,
                  experiment |-> "", version |-> "", session_num |-> "-1",
                  subject |-> "", voice_server |-> FALSE]
    /\ socket = [out_queue |-> <<>>, last_heartbeat |-> 0]
    /\ wire = <<>>
    /\ callbacks = {}
    /\ app = [pc |-> "idle", op |-> "none", exc |-> "none"]
    /\ obs = [enqueued |-> 0, received |-> 0, first_in |-> "none",
              shutdowns |-> 0, timeouts |-> 0, calls |-> 0, dropped |-> FALSE,
              handler_raised |-> FALSE, after_raise |-> FALSE,
              connected_received |-> FALSE, exit_status |-> -1,
              alive_at |-> -1, heartbeat_sent |-> -1, requests |-> 0]
    /\ proc = "running"
    /\ now = StartTime
    /\ pipe = NoPipe
    /\ gate = GateIdle
    /\ worker = NoWorker
    /\ sock = Bound
    /\ codec = NoCodec
    /\ class = NoController
    /\ net = NoNetwork
    /\ vad = NoVad

\* some code calls the constructor
Construct ==
    /\ \E address \in Addresses : class' = RAMControl_init(class, address)
    /\ UNCHANGED <<control, socket, wire, callbacks, app, obs, proc, now, pipe, gate,
                   worker, sock, codec, net, vad>>

\* some code calls RAMControl.instance()
Instance ==
    /\ \E address \in Addresses : class' = instance(class, address)
    /\ UNCHANGED <<control, socket, wire, callbacks, app, obs, proc, now, pipe, gate,
                   worker, sock, codec, net, vad>>

SingletonNext ==
    \/ Construct
    \/ Instance

SingletonSpec == SingletonInit /\ [][SingletonNext]_vars

----------------------------------------------------------------------------
(* The legacy transport: src/source/pylib/Network.py *)

\* Methods are operators on the fields of the server object.  listen() runs
\* in the thread waitForConnection() starts, and the main thread reads the
\* flags between any two of its statements: thread is the position of the
\* listener ("start": started, "checked": past the test of the flags,
\* "accepting": _isListening set, "dead": returned).

\* Network.open: a datagram socket (SOCK_DGRAM) is created and bound; the
\* bind may fail
open(n, bind_ok) ==
    [n EXCEPT !.sk = IF bind_ok THEN "bound" ELSE "unbound",
              !.op = "open", !.rtc = IF bind_ok THEN <<0>> ELSE <<-1>>,
              !.calls = @ + 1]

\* Network.waitForConnection
waitForConnection(n) ==
    IF n.thread \notin {"none", "dead"}
    THEN [n EXCEPT !.op = "waitForConnection", !.rtc = <<-1>>, !.calls = @ + 1]
    ELSE [n EXCEPT !.thread = "start", !.listen_rtc = <<>>,
                   !.op = "waitForConnection", !.rtc = <<0>>, !.calls = @ + 1]

\* Network.listen, lines 92-94
listen_check(n) ==
    IF n.isConnected \/ n.isListening
    THEN [n EXCEPT !.thread = "dead", !.listen_rtc = <<-1>>]
    ELSE [n EXCEPT !.isConnected = FALSE, !.thread = "checked"]

\* Network.listen, line 100
listen_mark(n) == [n EXCEPT !.isListening = TRUE, !.thread = "accepting"]

\* what self.sk.setblocking(True); self.sk.accept() does: without a socket
\* object an AttributeError; on the datagram socket of open(), bound, unbound
\* or closed, accept() raises socket.error (the socket is not a stream socket,
\* and listen(1) is commented out)
accept(n) == IF n.sk = "none" THEN "Exception" ELSE "socket.error"

\* Network.listen, lines 101-114: the except clauses
listen_accept(n) ==
    [n EXCEPT !.isListening = FALSE, !.thread = "dead",
              !.listen_rtc = IF accept(n) = "socket.error" THEN <<-2>> ELSE <<-3>>]

\* Network.send on the server: while not connected it calls self.sk.send,
\* which raises on a socket that has no peer (and on None); sent is 0
network_send(n) ==
    [n EXCEPT !.isConnected = FALSE, !.op = "send", !.rtc = <<-1>>, !.calls = @ + 1]

\* Network.close
close(n) ==
    [n EXCEPT !.sk = IF @ = "none" THEN @ ELSE "closed",
              !.isConnected = FALSE, !.isListening = FALSE,
              !.op = "close", !.rtc = <<>>, !.calls = @ + 1]

\* a client calls connect(): a stream socket, connected to the port of the
\* server, where no stream socket listens: refused
client_connect(n) == [n EXCEPT !.client = "refused", !.calls = @ + 1]

NetStep(n) ==
    /\ net' = n
    /\ UNCHANGED <<control, socket, wire, callbacks, app, obs, proc, now, pipe, gate,
                   worker, sock, codec, class, vad>>

NetOpen == net.calls < MaxNetCalls /\ \E ok \in BOOLEAN : NetStep(open(net, ok))
NetWaitForConnection == net.calls < MaxNetCalls /\ NetStep(waitForConnection(net))
NetSend == net.calls < MaxNetCalls /\ NetStep(network_send(net))
NetClose == net.calls < MaxNetCalls /\ NetStep(close(net))
NetClientConnect ==
    net.calls < MaxNetCalls /\ net.client = "none" /\ NetStep(client_connect(net))
ListenCheck == net.thread = "start" /\ NetStep(listen_check(net))
ListenMark == net.thread = "checked" /\ NetStep(listen_mark(net))
ListenAccept == net.thread = "accepting" /\ NetStep(listen_accept(net))

NetNext ==
    \/ NetOpen
    \/ NetWaitForConnection
    \/ NetSend
    \/ NetClose
    \/ NetClientConnect
    \/ ListenCheck
    \/ ListenMark
    \/ ListenAccept

NetSpec == Init /\ [][NetNext]_vars

----------------------------------------------------------------------------
(* The detection thread: VoiceServer.check_for_speech, voiceserver.py *)

\* chunk = self.data_queue.get(); offset = 0; framecount = []
get_chunk(v) == [v EXCEPT !.chunks = @ + 1, !.offset = 0, !.framecount = 0]

\* one turn of the inner loop that reports an onset at every frame of speech
\* past the threshold
check_frame_every_frame(v, is_speech) ==
    IF is_speech
    THEN LET n == v.framecount + 1
         IN  IF n >= consecutive_frames
             THEN [v EXCEPT !.framecount = n, !.speaking = TRUE,
                            !.sent = Append(@, TRUE), !.offset = @ + 1]
             ELSE [v EXCEPT !.framecount = n, !.offset = @ + 1]
    ELSE IF v.speaking
         THEN [v EXCEPT !.speaking = FALSE, !.sent = Append(@, FALSE),
                        !.framecount = 0, !.offset = @ + 1]
         ELSE [v EXCEPT !.framecount = 0, !.offset = @ + 1]

\* one turn of the inner loop, with the verdict of vad.is_speech on the frame
check_frame(v, is_speech) ==
    IF is_speech
    THEN LET n == v.framecount + 1
         IN  IF n >= consecutive_frames /\ ~v.speaking
             THEN [v EXCEPT !.framecount = n, !.speaking = TRUE,
                            !.sent = Append(@, TRUE), !.offset = @ + 1]
             ELSE [v EXCEPT !.framecount = n, !.offset = @ + 1]
    ELSE IF v.speaking
         THEN [v EXCEPT !.speaking = FALSE, !.sent = Append(@, FALSE),
                        !.framecount = 0, !.offset = @ + 1]
         ELSE [v EXCEPT !.framecount = 0, !.offset = @ + 1]

VadStep(v) ==
    /\ vad' = v
    /\ UNCHANGED <<control, socket, wire, callbacks, app, obs, proc, now, pipe, gate,
                   worker, sock, codec, class, net>>

\* the thread takes the next buffer from the queue
GetChunk ==
    /\ vad.offset = FramesInChunk
    /\ vad.chunks < MaxChunks
    /\ VadStep(get_chunk(vad))

\* the thread looks at the next frame of the buffer
CheckFrame ==
    /\ vad.offset < FramesInChunk
    /\ \E is_speech \in BOOLEAN : VadStep(check_frame(vad, is_speech))

VadNext ==
    \/ GetChunk
    \/ CheckFrame

VadSpec == Init /\ [][VadNext]_vars

----------------------------------------------------------------------------
(* Properties *)

\* everything handed to the queue or to the socket so far, heartbeats apart
NonHeartbeat(seq) == SelectSeq(seq, LAMBDA m : m.type # "HEARTBEAT")
\* the messages that went through the outbound queue
FromQueue(seq) == SelectSeq(seq, LAMBDA m : m.enq > 0)
IsPrefix(a, b) == Len(a) <= Len(b) /\ SubSeq(b, 1, Len(a)) = a
Types(seq) == [i \in DOMAIN seq |-> seq[i].type]
Outbound == wire \o socket.out_queue
Returned(op) == app.op = op /\ app.pc = "idle" /\ app.exc = "none"
Raised(op, e) == app.op = op /\ app.pc = "idle" /\ app.exc = e

\* The handshake scenario: the experiment code has called configure and then
\* initiate_connection and nothing else, the host has sent at most one frame,
\* a CONNECTED message, and nothing has shut the controller down.
HandshakeScenario ==
    /\ obs.calls = 2
    /\ app.op = "initiate_connection"
    /\ control.configured
    /\ obs.received <= 1
    /\ obs.first_in # "other"
    /\ obs.shutdowns = 0

\* the five messages of the handshake, as the queue numbers them
Handshake ==
    << [ConnectedMessage EXCEPT !.enq = 1],
       [ExperimentNameMessage("FR5") EXCEPT !.enq = 2],
       [VersionMessage("6.0.0") EXCEPT !.enq = 3],
       [SessionMessage("0", "") EXCEPT !.enq = 4],
       [SubjectIdMessage("R0001E") EXCEPT !.enq = 5] >>

InfoTypes == {"EXPNAME", "VERSION", "SESSION", "SUBJECTID"}

\* C1: in the handshake scenario the messages handed to the socket, heartbeats
\* apart, are CONNECTED, EXPNAME, VERSION, SESSION, SUBJECTID in that order
\* (a prefix of them while some are still queued, all five once
\* initiate_connection has returned and the queue is drained); and in every
\* session whose first frame is CONNECTED, a CONNECTED acknowledgment precedes
\* every experiment-info message.
C1_HandshakeOrder ==
    /\ HandshakeScenario =>
          /\ IsPrefix(NonHeartbeat(wire), Handshake)
          /\ Returned("initiate_connection") => NonHeartbeat(Outbound) = Handshake
          /\ app.pc = "initiate_connection" =>
                IsPrefix(NonHeartbeat(Outbound), SubSeq(Handshake, 1, 1))
    /\ obs.first_in = "CONNECTED" =>
          \A i \in DOMAIN Outbound :
             Outbound[i].type \in InfoTypes =>
                \E j \in 1..(i - 1) : Outbound[j].type = "CONNECTED"

C1_Witness ==
    /\ HandshakeScenario
    /\ Returned("initiate_connection")
    /\ NonHeartbeat(wire) = Handshake

\* C2: whenever the connected flag is set, a CONNECTED message has been
\* dispatched and its acknowledgment has been enqueued.
C2_ConnectedOnlyByMessage ==
    control.connected =>
        /\ obs.connected_received
        /\ \E i \in DOMAIN Outbound : Outbound[i].type = "CONNECTED"

\* C3: the messages that went through the queue are handed to the socket in
\* the order of their enqueue_message calls, and before everything still queued.
C3_FifoOrder ==
    LET h == FromQueue(wire) \o socket.out_queue
    IN  \A i, j \in DOMAIN h : i < j => h[i].enq < h[j].enq

C3_Witness ==
    /\ Len(FromQueue(wire)) >= 2
    /\ socket.out_queue # <<>>

\* the timeout test of check_connection
TimedOut ==
    /\ control.last_heartbeat_received > 0
    /\ now - control.last_heartbeat_received >= control.connection_timeout
    /\ control.connected

\* C4: in every state where the connection is marked live and the last
\* heartbeat is at least connection_timeout old, the check_connection tick
\* clears connected, invokes shutdown() once (one EXIT enqueued) and exits; a
\* timeout is declared at most once, and after it the process has exited with
\* connected false.
C4_TimeoutShutsDownOnce ==
    /\ TimedOut =>
          LET r == check_connection(World, now)
          IN  /\ ~r.c.connected
              /\ r.obs.shutdowns = obs.shutdowns + 1
              /\ r.obs.timeouts = obs.timeouts + 1
              /\ r.s.out_queue =
                    Append(socket.out_queue, [ExitMessage EXCEPT !.enq = obs.enqueued + 1])
              /\ r.exc = "SystemExit"
    /\ obs.timeouts <= 1
    /\ obs.timeouts = 1 <=> proc = "exited"
    /\ obs.timeouts = 1 =>
          /\ ~control.connected
          /\ obs.shutdowns >= 1
          /\ socket.out_queue # <<>>
          /\ socket.out_queue[Len(socket.out_queue)].type = "EXIT"

C4_Witness ==
    /\ obs.timeouts = 1
    /\ obs.shutdowns = 1
    /\ obs.connected_received

\* C5: in every state in which align_clocks() has returned, synced is true.
C5_AlignReturnsSynced ==
    Returned("align_clocks") => control.synced

SyncFrame(k) == Frame(Some("SYNC"), Some(k))

\* C6: in every state, dispatching an inbound SYNC with sequence number k
\* appends exactly one message to the outbound queue, a SYNC whose aux is k,
\* hands nothing to the socket, raises nothing and changes no field of the
\* controller.
C6_SyncEcho ==
    \A k \in SyncNums :
        LET r == handle_incoming(World, SyncFrame(k), now)
        IN  /\ r.s.out_queue =
                  Append(socket.out_queue,
                         [type |-> "SYNC", data |-> None, aux |-> Some(k),
                          ramsg |-> TRUE, json |-> TRUE, enq |-> obs.enqueued + 1])
            /\ r.obs.enqueued = obs.enqueued + 1
            /\ r.c = control
            /\ r.wire = wire
            /\ r.exc = "none"

\* a SYNC echo with the second sequence number has gone out
C6_Witness ==
    \E i \in DOMAIN wire : wire[i].type = "SYNC" /\ wire[i].aux = Some(2)

\* the frames no handler is registered for
DroppedFrames ==
    { f \in Frames : f.json # "object" \/ f.type = None \/ f.type[1] \notin handlers }

\* C7: in every state, a frame that cannot be decoded, has no type or has an
\* unregistered type leaves handle_incoming without an exception and with the
\* controller's fields, the outbound queue and the socket untouched; no
\* handler has run and nothing has been enqueued or shut down.
C7_BadFrameDropped ==
    \A f \in DroppedFrames :
        LET r == handle_incoming(World, f, now)
        IN  /\ r.exc = "none"
            /\ r.c = control
            /\ r.s = socket
            /\ r.wire = wire
            /\ r.callbacks = callbacks
            /\ r.obs = [obs EXCEPT !.received = @ + 1,
                                   !.first_in = IF @ = "none" THEN "other" ELSE @,
                                   !.dropped = TRUE]

\* a frame has been dropped in a session that is connected
C7_Witness ==
    /\ obs.dropped
    /\ control.connected
    /\ obs.received = 2

\* what the handler of a well-formed frame does to the world
NormalEffect(f, r) ==
    LET mtype == f.type[1]
        sent(m) == r.s.out_queue =
                      Append(socket.out_queue, [m EXCEPT !.enq = obs.enqueued + 1])
    IN  CASE mtype = "ID" -> r.c = control /\ r.s = socket
          [] mtype = "SYNC" -> sent(SyncMessage(f.num[1])) /\ r.c = control
          [] mtype = "SYNCED" -> r.c = [control EXCEPT !.synced = TRUE]
          [] mtype = "START" -> r.c = [control EXCEPT !.started = TRUE]
          [] mtype = "EXIT" -> sent(ExitMessage) /\ r.obs.shutdowns = obs.shutdowns + 1
          [] mtype = "HEARTBEAT" ->
                r.c = [control EXCEPT !.last_heartbeat_received = now]
          [] mtype = "CONNECTED" ->
                sent(ConnectedMessage) /\ r.c = [control EXCEPT !.connected = TRUE]

WellFormed ==
    { f \in Frames \ DroppedFrames : f.type = Some("SYNC") => f.num # None }

\* the frames that make dispatch, or the handler it calls, raise
RaisingFrames == { Frame(Some("SYNC"), None), Frame(Some(Unhashable), None) }

\* C8: no exception of a handler leaves update (the process never crashes):
\* a frame whose handling raises leaves the controller and the queue as they
\* were; and in every state reached after a handler has raised, the next
\* well-formed frame is dispatched to its handler with its normal effect.
C8_HandlerErrorContained ==
    /\ proc # "crashed"
    /\ \A f \in RaisingFrames :
          LET r == handle_incoming(World, f, now)
          IN  r.exc = "none" /\ r.c = control /\ r.s = socket
    /\ obs.handler_raised =>
          \A f \in WellFormed : NormalEffect(f, handle_incoming(World, f, now))

\* a handler has run to its end after an earlier one raised
C8_Witness ==
    /\ obs.handler_raised
    /\ obs.after_raise
    /\ control.started

NoOutbound(types) == \A i \in DOMAIN Outbound : Outbound[i].type \notin types

\* C9: in every state where the controller is not configured,
\* initiate_connection() raises RamException to its caller at once (it does
\* not enter its loop), enqueues nothing, registers no heartbeat callback and
\* changes no field; and while the controller is not configured no
\* experiment-info message exists and the heartbeat is not started.
C9_ConnectBeforeConfigure ==
    ~control.configured =>
        /\ LET r == initiate_connection(Enter(World, "initiate_connection"), now)
           IN  /\ r.app = [pc |-> "idle", op |-> "initiate_connection",
                           exc |-> "RamException"]
               /\ r.c = control
               /\ r.s = socket
               /\ r.wire = wire
               /\ r.callbacks = callbacks
               /\ r.obs.enqueued = obs.enqueued
        /\ NoOutbound(InfoTypes)
        /\ "send_heartbeat" \notin callbacks

C9_Witness ==
    /\ Raised("initiate_connection", "RamException")
    /\ ~control.configured
    /\ obs.calls = 2

\* C10: in every state where the connected flag is clear,
\* wait_for_start_message() raises RamException to its caller at once and
\* enqueues nothing; and while the running controller is not connected no
\* READY message exists.
C10_StartWaitNeedsConnection ==
    ~control.connected =>
        /\ LET r == wait_for_start_message(Enter(World, "wait_for_start_message"))
           IN  /\ r.app = [pc |-> "idle", op |-> "wait_for_start_message",
                           exc |-> "RamException"]
               /\ r.s = socket
               /\ r.wire = wire
               /\ r.c = control
               /\ r.obs.enqueued = obs.enqueued
        /\ proc = "running" => NoOutbound({"READY"})

C10_Witness ==
    /\ Raised("wait_for_start_message", "RamException")
    /\ control.configured
    /\ ~control.connected
    /\ obs.received > 0

\* C11: whenever align_clocks() is the last call made and the controller is
\* still not configured, the call was raised as a RamException, no ALIGNCLOCK
\* message exists and synced is unchanged (it is false before configure).
C11_AlignBeforeConfigure ==
    (app.op = "align_clocks" /\ ~control.configured) =>
        /\ app.exc = "RamException"
        /\ NoOutbound({"ALIGNCLOCK"})
        /\ ~control.synced

\* C12: a call of wait_for_start_message() made with a live connection never
\* returns in the step of the call itself: it enqueues READY once and sits in
\* its loop until a START arrives after that; a START received before the
\* call does not let it return.
C12_StartOnlyAfterReady ==
    [][(app.pc = "idle" /\ control.connected /\ obs'.calls = obs.calls + 1
           /\ app'.op = "wait_for_start_message")
        => /\ app'.pc = "wait_for_start_message"
           /\ socket'.out_queue =
                 Append(socket.out_queue, [ReadyMessage EXCEPT !.enq = obs.enqueued + 1])]_vars

\* C19: in every state where shutdown() has been invoked (it completes within
\* the step that invokes it), an EXIT message has been handed to the socket.
C19_ExitTransmitted ==
    obs.shutdowns > 0 => \E i \in DOMAIN wire : wire[i].type = "EXIT"

Heartbeats(seq) == Len(SelectSeq(seq, LAMBDA m : m.type = "HEARTBEAT"))

\* C20: once shutdown() has been invoked, no step hands a further HEARTBEAT
\* to the socket.
C20_NoHeartbeatAfterShutdown ==
    [][obs.shutdowns > 0 => Heartbeats(wire') = Heartbeats(wire)]_vars

----------------------------------------------------------------------------
(* Properties of the voice gate *)

\* C13: in every state where voice_detector() has sent START and the worker
\* has not replied, the single poll of the STARTED wait ends the call with
\* VoiceServerError, the wrapped region is not entered and nothing is read or
\* sent (no STOP either); in every state of the wait the one poll ends the
\* wait; and whenever the start has failed with VoiceServerError the
\* experiment code is outside voice_detector().
C13_StartTimeout ==
    /\ gate.pc = "start_wait" =>
          /\ proc = "running"
          /\ started_wait(World).gate.pc # "start_wait"
    /\ (gate.pc = "start_wait" /\ pipe.to_main = <<>>) =>
          LET r == started_wait(World)
          IN  /\ r.gate.pc = "idle"
              /\ r.gate.exc = "VoiceServerError"
              /\ r.gate.entered = gate.entered
              /\ r.gate.stops = gate.stops
              /\ r.pipe = pipe
              /\ r.exc = "none"
    /\ (gate.at = "start" /\ gate.exc = "VoiceServerError") => gate.pc = "idle"

\* a start has timed out while its START was still unread by the worker
C13_Witness ==
    /\ gate.at = "start"
    /\ gate.exc = "VoiceServerError"
    /\ gate.entered = 0
    /\ pipe.to_main = <<>>
    /\ pipe.to_worker # <<>>
    /\ pipe.to_worker[Len(pipe.to_worker)].inv = gate.inv

\* C14: whenever the start of voice_detector() has failed, it failed with
\* VoiceServerError, also when the first message read was not STARTED.
C14_WrongReplyIsAckError ==
    (gate.at = "start" /\ gate.exc # "none") => gate.exc = "VoiceServerError"

\* C15: the STOPPED wait makes at most StopTries polls, each poll is one more
\* try; once the wait is over, the call has completed normally if and only
\* if STOPPED is among the messages read in the wait, and otherwise it has
\* raised VoiceServerError after exactly StopTries polls.
C15_StopBounded ==
    /\ gate.polls <= StopTries
    /\ gate.pc = "stop_wait" =>
          /\ proc = "running"
          /\ gate.polls < StopTries
          /\ "STOPPED" \notin gate.read
          /\ LET r == stopped_wait(World)
             IN  /\ r.gate.polls = gate.polls + 1
                 /\ r.gate.pc \in {"stop_wait", "idle"}
                 /\ Len(r.pipe.to_main) >= Len(pipe.to_main) - 1
    /\ (gate.at = "stop" /\ gate.pc = "idle") =>
          /\ gate.exc = "none" <=> "STOPPED" \in gate.read
          /\ gate.exc # "none" =>
                gate.exc = "VoiceServerError" /\ gate.polls = StopTries

\* the wait has given up after reading something that was not STOPPED
C15_Witness ==
    /\ gate.at = "stop"
    /\ gate.pc = "idle"
    /\ gate.exc = "VoiceServerError"
    /\ gate.polls = StopTries
    /\ gate.read # {}

\* C16: whenever the experiment code is not in the wrapped region, a STOP has
\* been sent for every time the region was entered.
C16_StopAlwaysSent ==
    gate.pc \in {"idle", "stop_wait"} => gate.stops = gate.entered

\* C17: with a voice server, whenever the wrapped region is executing, the
\* STARTED that let it start answers the START of this same invocation.
C17_AckOfSameStart ==
    (control.voice_server /\ gate.pc = "region") => gate.ack = gate.inv

\* C18: every step that takes a CRITICAL message off the pipe raises an
\* error to the main process in that step (at the least; it is
\* check_voice_server that should raise it).
C18_CriticalSurfaced ==
    [][(pipe.to_main # <<>> /\ Head(pipe.to_main).type = "CRITICAL"
           /\ pipe'.to_main = Tail(pipe.to_main))
        => (proc' = "crashed" \/ gate'.exc # "none")]_vars

----------------------------------------------------------------------------
(* Properties of the transport, the codec and the constructor *)

\* C21: whenever the liveness check has declared the link dead, the process
\* has ended with a non-zero exit status.
C21_TimeoutExitNonZero ==
    obs.timeouts > 0 => (proc = "exited" /\ obs.exit_status > 0)

\* C23: a step that hands a HEARTBEAT to the socket finds no message waiting
\* in the outbound queue (the heartbeat goes through the queue, behind
\* everything enqueued before it).
C23_HeartbeatInFifoPosition ==
    [][Heartbeats(wire') > Heartbeats(wire) => socket.out_queue = <<>>]_vars

\* C24: whenever the heartbeat callback is registered or a HEARTBEAT has been
\* handed to the socket, the callback is registered, the controller is
\* configured, initiate_connection() has found connected set (it stays set
\* until a timeout ends the process) and has handed the four experiment-info
\* messages to send(): each of them is in the queue or on the wire.
C24_HeartbeatOnlyAfterConnection ==
    ("send_heartbeat" \in callbacks \/ Heartbeats(wire) > 0) =>
        /\ "send_heartbeat" \in callbacks
        /\ control.configured
        /\ control.connected \/ obs.timeouts > 0
        /\ control.last_heartbeat_received > 0
        /\ \A ty \in InfoTypes : \E i \in DOMAIN Outbound : Outbound[i].type = ty

\* a heartbeat has gone out on a live connection
C24_Witness ==
    /\ Heartbeats(wire) > 0
    /\ control.connected
    /\ Returned("initiate_connection")

\* C25: in every state, send(x) of something that is not a RAMMessage raises
\* nothing and changes nothing at all; send(m) of a RAMMessage appends m, once,
\* at the tail of the outbound queue and changes nothing else (the count of
\* enqueue calls apart).
C25_SendTypeCheck ==
    \A x \in SendInputs :
        LET r == send(World, x)
        IN  IF ~x.ramsg THEN r = World
            ELSE r = [World EXCEPT !.s.out_queue =
                                       Append(@, [x EXCEPT !.enq = obs.enqueued + 1]),
                                   !.obs.enqueued = @ + 1]

\* the only call made so far is a send() of something that is no RAMMessage
C25_Witness ==
    /\ Returned("send")
    /\ obs.calls = 1
    /\ obs.enqueued = 0
    /\ socket.out_queue = <<>>

\* C27: in every state where socket.update is polled, handle_outgoing() raises nothing to its caller and
\* leaves no message in the queue: a message whose transmission fails is
\* given up and those behind it are transmitted in the same invocation.
C27_PumpContinuesAfterFailure ==
    "update" \in callbacks =>
        LET r == handle_outgoing(World)
        IN  r.exc = "none" /\ r.s.out_queue = <<>>

\* C22: in every state the outbound queue holds at most MAX_QUEUE_SIZE
\* messages.
C22_QueueBounded == Len(socket.out_queue) <= MAX_QUEUE_SIZE

\* C26: in every step, each serializable message that was in the outbound
\* queue is afterwards still in the queue or has been accepted by the socket.
C26_NothingLostByPump ==
    [][\A i \in DOMAIN socket.out_queue :
          socket.out_queue[i].json =>
             \/ \E j \in DOMAIN socket'.out_queue :
                   socket'.out_queue[j] = socket.out_queue[i]
             \/ \E j \in DOMAIN wire' : wire'[j] = socket.out_queue[i]]_vars

\* C28: every step that receives a frame leaves no frame waiting in the
\* socket: one invocation of update takes all that has arrived.
C28_PumpTakesAllFrames ==
    [][obs'.received > obs.received => sock'.inbox = <<>>]_vars

\* C29: whenever a message has been rebuilt from the encoded form of a
\* message m, its type, timestamp, data and aux are equal to those of m.
C29_RoundTrip ==
    codec.step = "rebuilt" =>
        /\ codec.back.event_type = codec.m.event_type
        /\ codec.back.timestamp = codec.m.timestamp
        /\ codec.back.data = codec.m.data
        /\ codec.back.aux_data = codec.m.aux_data

\* C30: at most one RAMControl object exists, in whatever order instance()
\* and the constructor are called: a call made while a controller exists
\* makes no second one.
C30_AtMostOneInstance == Len(class.made) <= 1

\* C32: check_connection marks the connection dead and calls shutdown() only
\* when at least connection_timeout has passed since the last HEARTBEAT was
\* dispatched and since initiate_connection found the connection made.
C32_NoFalseTimeout ==
    [][obs'.timeouts > obs.timeouts =>
          /\ obs.alive_at > 0
          /\ now - obs.alive_at >= control.connection_timeout]_vars

\* C32: a timeout has happened after a HEARTBEAT was dispatched or the
\* connection was made
C32_Witness == obs.timeouts > 0 /\ obs.alive_at > 0 /\ proc = "exited"

\* C34: a poll of send_heartbeat puts at most one HEARTBEAT on the wire, and
\* a HEARTBEAT is put on the wire only when at least one interval (1 s) has
\* passed since the previous one was sent.
C34_HeartbeatSpacing ==
    [][Heartbeats(wire') > Heartbeats(wire) =>
          /\ Heartbeats(wire') = Heartbeats(wire) + 1
          /\ obs.heartbeat_sent >= 0 => now - obs.heartbeat_sent >= 1]_vars

\* C34: two HEARTBEATs are on the wire
C34_Witness == Heartbeats(wire) >= 2

Exits(seq) == Len(SelectSeq(seq, LAMBDA m : m.type = "EXIT"))

\* C39: in every state at most one EXIT message has been enqueued for the
\* host: counting the ones still queued and the ones handed to the socket.
C39_AtMostOneExit == Exits(socket.out_queue) + Exits(wire) <= 1

\* C33: initiate_connection() called after configure() stays in its loop
\* while connected is false, leaving it only by finding the flag set, and,
\* with the loop polling the socket and the host sending CONNECTED at some
\* time, it returns True in the end.
C33_ConnectEventually ==
    /\ [][app.pc = "initiate_connection" /\ app'.pc # "initiate_connection"
            => control.connected /\ Returned("initiate_connection")']_vars
    /\ (app.pc = "initiate_connection") ~> Returned("initiate_connection")

\* C33: the call has returned after at least one turn of its loop, on the
\* CONNECTED message of the host
C33_Witness ==
    /\ Returned("initiate_connection")
    /\ obs.connected_received
    /\ now > StartTime

\* C35: the flags of the server are never both true; after open() both are
\* false; and after waitForConnection() has started the listener on the
\* socket open() has bound and the listener has set its flag, the server is
\* listening and not connected for as long as no client has connected and
\* nothing else was called.
C35_ListeningOrConnected ==
    /\ ~(net.isConnected /\ net.isListening)
    /\ (net.op = "open" /\ net.thread = "none")
          => (~net.isConnected /\ ~net.isListening)
    /\ (net.op = "waitForConnection" /\ net.rtc = <<0>> /\ net.sk = "bound"
          /\ net.thread \in {"accepting", "dead"} /\ net.client = "none")
          => (net.isListening /\ ~net.isConnected)

\* C36: the VOCALIZATION events sent by the detection thread alternate
\* between speaking true and speaking false, the first being true.
C36_VocalizationAlternates ==
    \A i \in DOMAIN vad.sent : vad.sent[i] = (i % 2 = 1)

\* C36: an onset, an offset and a second onset have been sent, the second
\* onset from a later buffer
C36_Witness == Len(vad.sent) >= 3 /\ vad.chunks >= 2

\* C31: in every state after shutdown() has returned, with nothing left in
\* the pipe for the worker to read, the worker process is not running.
C31_WorkerEndsWithShutdown ==
    (obs.shutdowns > 0 /\ pipe.to_worker = <<>>) => ~worker.alive

\* C37: in every state where the worker has sent STARTED and has processed
\* no STOP since, exactly one microphone thread is in its reading loop.
C37_OneReader ==
    (worker.alive /\ worker.started) => worker.readers = 1

\* C38: there is no state in which voice_detector() has failed at its start
\* step, no STOP is on its way or in effect, and a microphone thread of the
\* worker is reading.
C38_NotLeftRecording ==
    ~ /\ gate.pc = "idle"
      /\ gate.at = "start"
      /\ gate.exc = "VoiceServerError"
      /\ \A i \in DOMAIN pipe.to_worker : pipe.to_worker[i].type # "STOP"
      /\ ~worker.stop_stream
      /\ worker.leaving = 0
      /\ worker.alive
      /\ worker.readers > 0

====
